---- MODULE Spec2Model ----
(***************************************************************************)
(* State-machine model of the SDL2_ttf binding (src/sdl2_ttf/lib.rs).      *)
(*                                                                         *)
(* The binding is a thin layer over a foreign library.  The foreign side   *)
(* is kept in one record, `ffi` (the init counter, the font and surface    *)
(* resources, the byte streams, the process-wide error slot, and the log   *)
(* of the foreign calls made by the operation in progress).  Each function *)
(* of lib.rs is an operator that threads this record through the foreign   *)
(* calls it makes, in the order the code makes them; each Call_* action    *)
(* applies one such function atomically (the binding is synchronous).      *)
(***************************************************************************)
EXTENDS Integers, Sequences, FiniteSets, TLC

VARIABLES
    ffi,        \* the foreign world: [init, font, surf, rw, err, log]
    fonts,      \* the live Font values, each [raw, owned]
    surfaces,   \* the live Surface values, each [raw, owned]
    last        \* the last operation: its name, receiver, input and result

vars == <<ffi, fonts, surfaces, last>>

----------------------------------------------------------------------------
(* Bounds of the model *)

MaxFonts == 2         \* font resources the foreign allocator can hand out
MaxSurfaces == 2      \* surface resources the foreign allocator can hand out
NumStreams == 1       \* byte streams (RWops) the caller holds open

FontIds == 1..MaxFonts
SurfIds == 1..MaxSurfaces
StreamIds == 1..NumStreams

(* Program constants *)

NULL == 0                       \* the null raw pointer
U16 == 65536                    \* 2^16: the width of `ch as u16`
TTF_STYLE_NORMAL == 0
TTF_STYLE_BOLD == 1
TTF_STYLE_ITALIC == 2
TTF_STYLE_UNDERLINE == 4
TTF_STYLE_STRIKETHROUGH == 8

(* Inputs *)

\* chars: 'A', U+FFFF (the last of the 16-bit range), U+10041 (= 'A' + 2^16)
Chars == {65, 65535, 65601}
\* texts, by their length in bytes (the empty text included)
Texts == {0, 2}
PtSizes == {24}
FaceIndexes == {0}

----------------------------------------------------------------------------
(* The foreign world *)

NoFontRes == [st |-> "unalloc", torn |-> FALSE, closes |-> 0, style |-> 0,
              src |-> 0, freesrc |-> 0]

InitFfi ==
    [init |-> 0,
     font |-> [f \in FontIds |-> NoFontRes],
     surf |-> [s \in SurfIds |-> [st |-> "unalloc", frees |-> 0]],
     rw   |-> [s \in StreamIds |-> [st |-> "open", closes |-> 0]],
     err  |-> "",
     log  |-> <<>>]

\* the diagnostics the foreign calls leave in the error slot when they fail
InitDiag == "Couldn't init FreeType engine"
OpenDiag == "Couldn't load font file"
GlyphDiag == "Couldn't find glyph"
SizeDiag == "Couldn't size text"
RenderDiag == "Couldn't render text"

\* one foreign call appended to the log of the operation in progress
Log(w, fn, arg, ret, diag) ==
    [w EXCEPT !.log = Append(@, [fn |-> fn, arg |-> arg, ret |-> ret, diag |-> diag])]

\* the return value of the foreign call made last
Ret(w) == w.log[Len(w.log)].ret
Diag(w) == w.log[Len(w.log)].diag

\* an operation starts with an empty log
Enter(w) == [w EXCEPT !.log = <<>>]

Min(S) == CHOOSE x \in S : \A y \in S : x <= y

\* the bitwise and, and the bitwise or, of two naturals
RECURSIVE BitAnd(_, _)
BitAnd(a, b) ==
    IF a = 0 \/ b = 0 THEN 0
    ELSE (a % 2) * (b % 2) + 2 * BitAnd(a \div 2, b \div 2)

RECURSIVE BitOr(_, _)
BitOr(a, b) ==
    IF a = 0 THEN b
    ELSE IF b = 0 THEN a
    ELSE (IF a % 2 = 1 \/ b % 2 = 1 THEN 1 ELSE 0) + 2 * BitOr(a \div 2, b \div 2)

FreeFontIds(w) == {f \in FontIds : w.font[f].st = "unalloc"}
FreeSurfIds(w) == {s \in SurfIds : w.surf[s].st = "unalloc"}

\* SDL_RWclose on stream s
SDL_RWclose(w, s) ==
    [w EXCEPT !.rw[s] = [st |-> "closed", closes |-> @.closes + 1]]

TTF_WasInit(w) == Log(w, "TTF_WasInit", 0, w.init, "")

\* TTF_Init: a reference-counted init; it can fail only on the first init
TTF_Init(w, ok) ==
    IF w.init > 0 \/ ok
    THEN Log([w EXCEPT !.init = @ + 1], "TTF_Init", 0, 0, "")
    ELSE Log([w EXCEPT !.err = InitDiag], "TTF_Init", 0, -1, "")

\* TTF_Quit: the last quit tears the library down, and every font still open
\* with it
TTF_Quit(w) ==
    IF w.init = 0 THEN Log(w, "TTF_Quit", 0, 0, "")
    ELSE IF w.init > 1 THEN Log([w EXCEPT !.init = @ - 1], "TTF_Quit", 0, 0, "")
    ELSE Log([w EXCEPT !.init = 0,
                       !.font = [f \in FontIds |->
                                   IF w.font[f].st = "open"
                                   THEN [w.font[f] EXCEPT !.torn = TRUE]
                                   ELSE w.font[f]]],
             "TTF_Quit", 0, 0, "")

\* SDL_GetError: reads the process-wide error slot
SDL_GetError(w) == Log(w, "SDL_GetError", 0, 0, w.err)

\* TTF_OpenFont, TTF_OpenFontIndex (src = 0) and TTF_OpenFontRW,
\* TTF_OpenFontIndexRW (src a stream): NULL when the library is not
\* initialized, when the open fails or when nothing can be allocated; a
\* failing open closes the stream when freesrc is set.
TTF_Open(w, fn, ok, src, freesrc) ==
    IF w.init = 0 \/ ~ok \/ FreeFontIds(w) = {}
    THEN LET w1 == IF src # 0 /\ freesrc # 0 THEN SDL_RWclose(w, src) ELSE w
         IN  Log([w1 EXCEPT !.err = OpenDiag], fn, src, NULL, "")
    ELSE LET f == Min(FreeFontIds(w))
         IN  Log([w EXCEPT !.font[f] = [st |-> "open", torn |-> FALSE, closes |-> 0,
                                        style |-> TTF_STYLE_NORMAL,
                                        src |-> src, freesrc |-> freesrc]],
                 fn, src, f, "")

\* TTF_CloseFont: releases the font, and its stream when it was opened with
\* freesrc set
TTF_CloseFont(w, raw) ==
    LET r  == w.font[raw]
        w1 == [w EXCEPT !.font[raw] = [r EXCEPT !.st = "closed", !.closes = @ + 1]]
        w2 == IF r.src # 0 /\ r.freesrc # 0 THEN SDL_RWclose(w1, r.src) ELSE w1
    IN  Log(w2, "TTF_CloseFont", raw, 0, "")

TTF_GetFontStyle(w, raw) == Log(w, "TTF_GetFontStyle", raw, w.font[raw].style, "")

\* TTF_SetFontStyle, as the specification's Invariants section describes the
\* style attribute: setting flags leaves the flags set before in force, and
\* setting TTF_STYLE_NORMAL clears them all
TTF_SetFontStyle(w, raw, style) ==
    LET before == w.font[raw].style
        after == IF style = TTF_STYLE_NORMAL
                 THEN TTF_STYLE_NORMAL
                 ELSE BitOr(before, style)
    IN  Log([w EXCEPT !.font[raw].style = after], "TTF_SetFontStyle", style, 0, "")

\* the glyph table of the fonts of the model: the printable ASCII range
GlyphIndex(c16) == IF c16 >= 32 /\ c16 <= 126 THEN c16 - 29 ELSE 0

TTF_GlyphIsProvided(w, raw, c16) ==
    Log(w, "TTF_GlyphIsProvided", c16, GlyphIndex(c16), "")

TTF_GlyphMetrics(w, raw, c16) ==
    IF GlyphIndex(c16) # 0
    THEN Log(w, "TTF_GlyphMetrics", c16, 0, "")
    ELSE Log([w EXCEPT !.err = GlyphDiag], "TTF_GlyphMetrics", c16, -1, "")

\* the box the foreign call writes through its five out-pointers
GlyphBox(c16) ==
    [minx |-> 0, maxx |-> c16 % 7, miny |-> 0 - (c16 % 3), maxy |-> c16 % 5,
     advance |-> 1 + (c16 % 7)]

\* TTF_SizeText, TTF_SizeUTF8
TTF_Size(w, fn, ok, len) ==
    IF ok THEN Log(w, fn, len, 0, "")
    ELSE Log([w EXCEPT !.err = SizeDiag], fn, len, -1, "")

\* the nine TTF_Render* calls: a newly allocated surface, or NULL
TTF_Render(w, fn, ok, arg) ==
    IF ~ok \/ FreeSurfIds(w) = {}
    THEN Log([w EXCEPT !.err = RenderDiag], fn, arg, NULL, "")
    ELSE LET s == Min(FreeSurfIds(w))
         IN  Log([w EXCEPT !.surf[s].st = "live"], fn, arg, s, "")

SDL_FreeSurface(w, raw) ==
    Log([w EXCEPT !.surf[raw] = [st |-> "freed", frees |-> @.frees + 1]],
        "SDL_FreeSurface", raw, 0, "")

----------------------------------------------------------------------------
(* Results *)

Ok(w, val)  == [w |-> w, ok |-> TRUE, val |-> val, err |-> ""]
Err(w, e)   == [w |-> w, ok |-> FALSE, val |-> NULL, err |-> e]
Some(w, val) == [w |-> w, ok |-> TRUE, val |-> val, err |-> ""]
None(w)     == [w |-> w, ok |-> FALSE, val |-> NULL, err |-> ""]

\* get_error() of the sdl2 crate: the string SDL_GetError returns
get_error(w) == LET w1 == SDL_GetError(w) IN Err(w1, Diag(w1))

----------------------------------------------------------------------------
(* Library state: init, was_inited, quit (lib.rs 90-111) *)

\* init without the TTF_WasInit test
init_unguarded(w, init_ok) ==
    LET w1 == TTF_Init(w, init_ok) IN [w |-> w1, ret |-> (Ret(w1) = 0)]

\* init reporting success whatever the foreign init returns
init_always_true(w, init_ok) ==
    LET w1 == TTF_WasInit(w) IN
    IF Ret(w1) = 1
    THEN [w |-> w1, ret |-> TRUE]
    ELSE LET w2 == TTF_Init(w1, init_ok) IN [w |-> w2, ret |-> TRUE]

init(w, init_ok) ==
    LET w1 == TTF_WasInit(w) IN
    IF Ret(w1) = 1
    THEN [w |-> w1, ret |-> TRUE]
    ELSE LET w2 == TTF_Init(w1, init_ok) IN [w |-> w2, ret |-> (Ret(w2) = 0)]

was_inited(w) ==
    LET w1 == TTF_WasInit(w) IN [w |-> w1, ret |-> (Ret(w1) = 1)]

quit(w) == TTF_Quit(w)

----------------------------------------------------------------------------
(* Font and its destructor (lib.rs 116-137) *)

Font(raw, owned) == [raw |-> raw, owned |-> owned]
NoFont == Font(NULL, FALSE)

from_ll(raw, owned) == Font(raw, owned)

\* a destructor that closes whatever the library state is
drop_unguarded(w, self) ==
    IF self.owned THEN TTF_CloseFont(w, self.raw) ELSE w

drop(w, self) ==
    IF self.owned
    THEN LET w1 == TTF_WasInit(w) IN
         IF Ret(w1) = 1 THEN TTF_CloseFont(w1, self.raw) ELSE w1
    ELSE w

----------------------------------------------------------------------------
(* Constructors (lib.rs 139-161, 481-502) *)

\* from_file reading the error slot before the foreign call
from_file_stale(w, ptsize, open_ok) ==
    LET e  == get_error(w)
        w1 == TTF_Open(e.w, "TTF_OpenFont", open_ok, 0, 0)
        raw == Ret(w1)
    IN  IF raw = NULL THEN Err(w1, e.err) ELSE Ok(w1, Font(raw, TRUE))

from_file(w, ptsize, open_ok) ==
    LET w1 == TTF_Open(w, "TTF_OpenFont", open_ok, 0, 0)
        raw == Ret(w1)
    IN  IF raw = NULL THEN get_error(w1) ELSE Ok(w1, Font(raw, TRUE))

\* from_file_index handing out a handle that is not owned
from_file_index_unowned(w, ptsize, index, open_ok) ==
    LET w1 == TTF_Open(w, "TTF_OpenFontIndex", open_ok, 0, 0)
        raw == Ret(w1)
    IN  IF raw = NULL THEN get_error(w1) ELSE Ok(w1, Font(raw, FALSE))

from_file_index(w, ptsize, index, open_ok) ==
    LET w1 == TTF_Open(w, "TTF_OpenFontIndex", open_ok, 0, 0)
        raw == Ret(w1)
    IN  IF raw = NULL THEN get_error(w1) ELSE Ok(w1, Font(raw, TRUE))

\* load_font asking the foreign library to close the stream
load_font_freesrc(w, rwops, ptsize, open_ok) ==
    LET w1 == TTF_Open(w, "TTF_OpenFontRW", open_ok, rwops, 1)
        raw == Ret(w1)
    IN  IF raw = NULL THEN get_error(w1) ELSE Ok(w1, from_ll(raw, TRUE))

load_font(w, rwops, ptsize, open_ok) ==
    LET w1 == TTF_Open(w, "TTF_OpenFontRW", open_ok, rwops, 0)
        raw == Ret(w1)
    IN  IF raw = NULL THEN get_error(w1) ELSE Ok(w1, from_ll(raw, TRUE))

load_font_index(w, rwops, ptsize, index, open_ok) ==
    LET w1 == TTF_Open(w, "TTF_OpenFontIndexRW", open_ok, rwops, 0)
        raw == Ret(w1)
    IN  IF raw = NULL THEN get_error(w1) ELSE Ok(w1, from_ll(raw, TRUE))

----------------------------------------------------------------------------
(* FontStyle (lib.rs 57-63) and the style accessors (lib.rs 163-176) *)

\* FontStyle is the struct bitflags! makes: one field, the bits
FontStyle(n) == [bits |-> n]

StyleNormal == FontStyle(TTF_STYLE_NORMAL)
StyleBold == FontStyle(TTF_STYLE_BOLD)
StyleItalic == FontStyle(TTF_STYLE_ITALIC)
StyleUnderline == FontStyle(TTF_STYLE_UNDERLINE)
StyleStrikeThrough == FontStyle(TTF_STYLE_STRIKETHROUGH)

FontStyleFlags ==
    {StyleNormal, StyleBold, StyleItalic, StyleUnderline, StyleStrikeThrough}

\* FontStyle::bits()
bits(styles) == styles.bits

\* the union of two FontStyle values (the | of bitflags!)
FontStyle_union(a, b) == FontStyle(BitOr(bits(a), bits(b)))

RECURSIVE FontStyle_unionAll(_)
FontStyle_unionAll(S) ==
    IF S = {} THEN FontStyle(0)
    ELSE LET x == CHOOSE y \in S : TRUE
         IN  FontStyle_union(x, FontStyle_unionAll(S \ {x}))

\* FontStyle::empty() and FontStyle::all()
FontStyle_empty == FontStyle(0)
FontStyle_all == FontStyle_unionAll(FontStyleFlags)

\* every FontStyle value: the unions of the five flags
FontStyles == {FontStyle_unionAll(S) : S \in SUBSET FontStyleFlags}

\* FontStyle::contains
FontStyle_contains(a, b) == BitAnd(bits(a), bits(b)) = bits(b)

\* FontStyle::from_bits_truncate
from_bits_truncate(raw) == FontStyle(BitAnd(raw, bits(FontStyle_all)))

get_style(w, self) ==
    LET w1 == TTF_GetFontStyle(w, self.raw)
    IN  Ok(w1, from_bits_truncate(Ret(w1)))

\* set_style handing over the flags through a mask that leaves out
\* TTF_STYLE_STRIKETHROUGH
set_style_masked(w, self, styles) ==
    TTF_SetFontStyle(w, self.raw,
        BitAnd(bits(styles),
               TTF_STYLE_BOLD + TTF_STYLE_ITALIC + TTF_STYLE_UNDERLINE))

set_style(w, self, styles) == TTF_SetFontStyle(w, self.raw, bits(styles))

----------------------------------------------------------------------------
(* Glyph queries and text measurement (lib.rs 287-349) *)

\* `ch as u16`: the low 16 bits of the code point
as_u16(ch) == ch % U16

index_of_char(w, self, ch) ==
    LET w1 == TTF_GlyphIsProvided(w, self.raw, as_u16(ch))
        ret == Ret(w1)
    IN  IF ret = 0 THEN None(w1) ELSE Some(w1, ret)

\* The out-parameters of metrics_of_char and size_of_* are immutable locals
\* initialised to 0 (`let w = 0;`) whose addresses go to the foreign call,
\* which writes through them: undefined behaviour.  What the code reads
\* back afterwards is either what the foreign call wrote (seen) or the
\* initialiser, 0, the compiler being free to fold an immutable local.
ReadBack(written, seen) == IF seen THEN written ELSE 0

metrics_of_char(w, self, ch, seen) ==
    LET w1 == TTF_GlyphMetrics(w, self.raw, as_u16(ch))
        ret == Ret(w1)
        box == GlyphBox(w1.log[Len(w1.log)].arg)
    IN  IF ret # 0 THEN None(w1)
        ELSE Some(w1, [minx |-> ReadBack(box.minx, seen),
                       maxx |-> ReadBack(box.maxx, seen),
                       miny |-> ReadBack(box.miny, seen),
                       maxy |-> ReadBack(box.maxy, seen),
                       advance |-> ReadBack(box.advance, seen)])

\* (w, h) as the foreign call writes them
TextSize(len) == <<3 * len, 2>>

size_of_bytes(w, self, text, size_ok, seen) ==
    LET w1 == TTF_Size(w, "TTF_SizeText", size_ok, text)
        ret == Ret(w1)
    IN  IF ret # 0 THEN get_error(w1)
        ELSE Ok(w1, <<ReadBack(TextSize(text)[1], seen),
                      ReadBack(TextSize(text)[2], seen)>>)

size_of_str(w, self, text, size_ok, seen) ==
    LET w1 == TTF_Size(w, "TTF_SizeUTF8", size_ok, text)
        ret == Ret(w1)
    IN  IF ret # 0 THEN get_error(w1)
        ELSE Ok(w1, <<ReadBack(TextSize(text)[1], seen),
                      ReadBack(TextSize(text)[2], seen)>>)

----------------------------------------------------------------------------
(* Surface of the sdl2 crate, and the render operations (lib.rs 351-469) *)

Surface_from_ll(raw, owned) == [raw |-> raw, owned |-> owned]

Surface_drop(w, self) ==
    IF self.owned THEN SDL_FreeSurface(w, self.raw) ELSE w

\* the shape the nine render operations share: the foreign call, then the
\* null test
RenderResult(w1) ==
    LET raw == Ret(w1)
    IN  IF raw = NULL THEN get_error(w1) ELSE Ok(w1, Surface_from_ll(raw, TRUE))

\* render_bytes_solid wrapping the surface as not owned
render_bytes_solid_unowned(w, self, text, render_ok) ==
    LET w1 == TTF_Render(w, "TTF_RenderText_Solid", render_ok, text)
        raw == Ret(w1)
    IN  IF raw = NULL THEN get_error(w1) ELSE Ok(w1, Surface_from_ll(raw, FALSE))

render_bytes_solid(w, self, text, render_ok) ==
    RenderResult(TTF_Render(w, "TTF_RenderText_Solid", render_ok, text))

render_str_solid(w, self, text, render_ok) ==
    RenderResult(TTF_Render(w, "TTF_RenderUTF8_Solid", render_ok, text))

render_char_solid(w, self, ch, render_ok) ==
    RenderResult(TTF_Render(w, "TTF_RenderGlyph_Solid", render_ok, as_u16(ch)))

render_bytes_shaded(w, self, text, render_ok) ==
    RenderResult(TTF_Render(w, "TTF_RenderText_Shaded", render_ok, text))

render_str_shaded(w, self, text, render_ok) ==
    RenderResult(TTF_Render(w, "TTF_RenderUTF8_Shaded", render_ok, text))

render_char_shaded(w, self, ch, render_ok) ==
    RenderResult(TTF_Render(w, "TTF_RenderGlyph_Shaded", render_ok, as_u16(ch)))

render_bytes_blended(w, self, text, render_ok) ==
    RenderResult(TTF_Render(w, "TTF_RenderText_Blended", render_ok, text))

render_str_blended(w, self, text, render_ok) ==
    RenderResult(TTF_Render(w, "TTF_RenderUTF8_Blended", render_ok, text))

render_char_blended(w, self, ch, render_ok) ==
    RenderResult(TTF_Render(w, "TTF_RenderGlyph_Blended", render_ok, as_u16(ch)))

TextRenderOps == {"render_bytes_solid", "render_str_solid", "render_bytes_shaded",
                  "render_str_shaded", "render_bytes_blended", "render_str_blended"}
CharRenderOps == {"render_char_solid", "render_char_shaded", "render_char_blended"}
RenderOps == TextRenderOps \cup CharRenderOps

render(op, w, self, x, render_ok) ==
    CASE op = "render_bytes_solid"   -> render_bytes_solid(w, self, x, render_ok)
      [] op = "render_str_solid"     -> render_str_solid(w, self, x, render_ok)
      [] op = "render_char_solid"    -> render_char_solid(w, self, x, render_ok)
      [] op = "render_bytes_shaded"  -> render_bytes_shaded(w, self, x, render_ok)
      [] op = "render_str_shaded"    -> render_str_shaded(w, self, x, render_ok)
      [] op = "render_char_shaded"   -> render_char_shaded(w, self, x, render_ok)
      [] op = "render_bytes_blended" -> render_bytes_blended(w, self, x, render_ok)
      [] op = "render_str_blended"   -> render_str_blended(w, self, x, render_ok)
      [] op = "render_char_blended"  -> render_char_blended(w, self, x, render_ok)

----------------------------------------------------------------------------
(* The state machine *)

Done(op, self, in, ok, val, err) ==
    last' = [op |-> op, self |-> self, in |-> in, ok |-> ok, val |-> val, err |-> err]

Init ==
    /\ ffi = InitFfi
    /\ fonts = {}
    /\ surfaces = {}
    /\ last = [op |-> "none", self |-> NoFont, in |-> 0, ok |-> TRUE,
               val |-> NULL, err |-> ""]

Call_init ==
    \E init_ok \in BOOLEAN :
        LET r == init(Enter(ffi), init_ok) IN
        /\ ffi' = r.w
        /\ Done("init", NoFont, 0, r.ret, NULL, "")
        /\ UNCHANGED <<fonts, surfaces>>

Call_was_inited ==
    LET r == was_inited(Enter(ffi)) IN
    /\ ffi' = r.w
    /\ Done("was_inited", NoFont, 0, r.ret, NULL, "")
    /\ UNCHANGED <<fonts, surfaces>>

Call_quit ==
    /\ ffi' = quit(Enter(ffi))
    /\ Done("quit", NoFont, 0, TRUE, NULL, "")
    /\ UNCHANGED <<fonts, surfaces>>

\* a constructor's result reaches the caller, who holds the Font of an Ok
\* (the model stops opening fonts once MaxFonts resources were handed out)
Construct(op, in, r) ==
    /\ FreeFontIds(ffi) # {}
    /\ ffi' = r.w
    /\ fonts' = IF r.ok THEN fonts \cup {r.val} ELSE fonts
    /\ Done(op, NoFont, in, r.ok, r.val, r.err)
    /\ UNCHANGED surfaces

Call_from_file ==
    \E ptsize \in PtSizes, open_ok \in BOOLEAN :
        Construct("from_file", 0, from_file(Enter(ffi), ptsize, open_ok))

Call_from_file_index ==
    \E ptsize \in PtSizes, index \in FaceIndexes, open_ok \in BOOLEAN :
        Construct("from_file_index", 0,
                  from_file_index(Enter(ffi), ptsize, index, open_ok))

Call_load_font ==
    \E rwops \in StreamIds, ptsize \in PtSizes, open_ok \in BOOLEAN :
        Construct("load_font", rwops, load_font(Enter(ffi), rwops, ptsize, open_ok))

Call_load_font_index ==
    \E rwops \in StreamIds, ptsize \in PtSizes, index \in FaceIndexes,
       open_ok \in BOOLEAN :
        Construct("load_font_index", rwops,
                  load_font_index(Enter(ffi), rwops, ptsize, index, open_ok))

\* the module's own way to a Font that does not own its resource
Call_from_ll ==
    \E h \in fonts :
        /\ h.owned
        /\ fonts' = fonts \cup {from_ll(h.raw, FALSE)}
        /\ ffi' = Enter(ffi)
        /\ Done("from_ll", h, 0, TRUE, from_ll(h.raw, FALSE), "")
        /\ UNCHANGED surfaces

Call_drop ==
    \E self \in fonts :
        /\ ffi' = drop(Enter(ffi), self)
        /\ fonts' = fonts \ {self}
        /\ Done("drop", self, 0, TRUE, NULL, "")
        /\ UNCHANGED surfaces

Call_get_style ==
    \E self \in fonts :
        LET r == get_style(Enter(ffi), self) IN
        /\ ffi' = r.w
        /\ Done("get_style", self, 0, TRUE, r.val, "")
        /\ UNCHANGED <<fonts, surfaces>>

Call_set_style ==
    \E self \in fonts, styles \in FontStyles :
        /\ ffi' = set_style(Enter(ffi), self, styles)
        /\ Done("set_style", self, styles, TRUE, NULL, "")
        /\ UNCHANGED <<fonts, surfaces>>

Call_index_of_char ==
    \E self \in fonts, ch \in Chars :
        LET r == index_of_char(Enter(ffi), self, ch) IN
        /\ ffi' = r.w
        /\ Done("index_of_char", self, ch, r.ok, r.val, r.err)
        /\ UNCHANGED <<fonts, surfaces>>

Call_metrics_of_char ==
    \E self \in fonts, ch \in Chars, seen \in BOOLEAN :
        LET r == metrics_of_char(Enter(ffi), self, ch, seen) IN
        /\ ffi' = r.w
        /\ Done("metrics_of_char", self, ch, r.ok, r.val, r.err)
        /\ UNCHANGED <<fonts, surfaces>>

Call_size_of_bytes ==
    \E self \in fonts, text \in Texts, size_ok \in BOOLEAN, seen \in BOOLEAN :
        LET r == size_of_bytes(Enter(ffi), self, text, size_ok, seen) IN
        /\ size_ok \/ seen        \* a failed call reads nothing back
        /\ ffi' = r.w
        /\ Done("size_of_bytes", self, text, r.ok, r.val, r.err)
        /\ UNCHANGED <<fonts, surfaces>>

Call_size_of_str ==
    \E self \in fonts, text \in Texts, size_ok \in BOOLEAN, seen \in BOOLEAN :
        LET r == size_of_str(Enter(ffi), self, text, size_ok, seen) IN
        /\ size_ok \/ seen        \* a failed call reads nothing back
        /\ ffi' = r.w
        /\ Done("size_of_str", self, text, r.ok, r.val, r.err)
        /\ UNCHANGED <<fonts, surfaces>>

\* a render's result reaches the caller, who holds the Surface of an Ok
\* (the model stops rendering once MaxSurfaces resources were handed out)
RenderStep(op, self, x, r) ==
    /\ FreeSurfIds(ffi) # {}
    /\ ffi' = r.w
    /\ surfaces' = IF r.ok THEN surfaces \cup {r.val} ELSE surfaces
    /\ Done(op, self, x, r.ok, r.val, r.err)
    /\ UNCHANGED fonts

Call_render_text ==
    \E self \in fonts, op \in TextRenderOps, text \in Texts, render_ok \in BOOLEAN :
        RenderStep(op, self, text, render(op, Enter(ffi), self, text, render_ok))

Call_render_char ==
    \E self \in fonts, op \in CharRenderOps, ch \in Chars, render_ok \in BOOLEAN :
        RenderStep(op, self, ch, render(op, Enter(ffi), self, ch, render_ok))

Call_drop_surface ==
    \E s \in surfaces :
        /\ ffi' = Surface_drop(Enter(ffi), s)
        /\ surfaces' = surfaces \ {s}
        /\ Done("drop_surface", NoFont, s.raw, TRUE, NULL, "")
        /\ UNCHANGED fonts

\* the life cycle of the library and of the fonts
Next ==
    \/ Call_init
    \/ Call_was_inited
    \/ Call_quit
    \/ Call_from_file
    \/ Call_from_file_index
    \/ Call_load_font
    \/ Call_load_font_index
    \/ Call_drop

Spec == Init /\ [][Next]_vars

\* the destructor, on the fonts that own their resource and on those that
\* do not
NextDrop ==
    \/ Call_init
    \/ Call_quit
    \/ Call_from_file
    \/ Call_from_ll
    \/ Call_drop

SpecDrop == Init /\ [][NextDrop]_vars

\* the fallible operations: the constructors, the measurements, the renders
NextFallible ==
    \/ Call_init
    \/ Call_from_file
    \/ Call_from_file_index
    \/ Call_load_font
    \/ Call_load_font_index
    \/ Call_size_of_bytes
    \/ Call_size_of_str
    \/ Call_render_text
    \/ Call_render_char

SpecFallible == Init /\ [][NextFallible]_vars

\* the surfaces the renders hand out, against the life cycle of their font
NextSurface ==
    \/ Call_init
    \/ Call_quit
    \/ Call_from_file
    \/ Call_drop
    \/ Call_render_text
    \/ Call_render_char
    \/ Call_drop_surface

SpecSurface == Init /\ [][NextSurface]_vars

\* the operations that take a char
NextGlyph ==
    \/ Call_init
    \/ Call_from_file
    \/ Call_drop
    \/ Call_index_of_char
    \/ Call_metrics_of_char
    \/ Call_render_char
    \/ Call_drop_surface

SpecGlyph == Init /\ [][NextGlyph]_vars

\* the style accessors, on the fonts of an initialized library
NextStyle ==
    \/ Call_init
    \/ Call_from_file
    \/ Call_set_style
    \/ Call_get_style

SpecStyle == Init /\ [][NextStyle]_vars

----------------------------------------------------------------------------
(* Properties *)

\* the foreign calls of the last operation, and those to one function
Calls == ffi.log
CallsTo(fn) == {i \in 1..Len(Calls) : Calls[i].fn = fn}

ConstructorOps == {"from_file", "from_file_index", "load_font", "load_font_index"}
SizeOps == {"size_of_bytes", "size_of_str"}
GlyphOps == {"index_of_char", "metrics_of_char"} \cup CharRenderOps
FallibleOps == ConstructorOps \cup SizeOps \cup RenderOps

\* the foreign function each operation is a binding of
ForeignOf(op) ==
    CASE op = "from_file"            -> "TTF_OpenFont"
      [] op = "from_file_index"      -> "TTF_OpenFontIndex"
      [] op = "load_font"            -> "TTF_OpenFontRW"
      [] op = "load_font_index"      -> "TTF_OpenFontIndexRW"
      [] op = "size_of_bytes"        -> "TTF_SizeText"
      [] op = "size_of_str"          -> "TTF_SizeUTF8"
      [] op = "render_bytes_solid"   -> "TTF_RenderText_Solid"
      [] op = "render_str_solid"     -> "TTF_RenderUTF8_Solid"
      [] op = "render_char_solid"    -> "TTF_RenderGlyph_Solid"
      [] op = "render_bytes_shaded"  -> "TTF_RenderText_Shaded"
      [] op = "render_str_shaded"    -> "TTF_RenderUTF8_Shaded"
      [] op = "render_char_shaded"   -> "TTF_RenderGlyph_Shaded"
      [] op = "render_bytes_blended" -> "TTF_RenderText_Blended"
      [] op = "render_str_blended"   -> "TTF_RenderUTF8_Blended"
      [] op = "render_char_blended"  -> "TTF_RenderGlyph_Blended"
      [] op = "index_of_char"        -> "TTF_GlyphIsProvided"
      [] op = "metrics_of_char"      -> "TTF_GlyphMetrics"

\* C1: dropping a Font calls TTF_CloseFont on its resource if and only if the
\* Font is owned and the library is initialized (TTF_WasInit() = 1) at the
\* drop; in every other case the drop makes no foreign close call.  (The drop
\* leaves the init counter as it found it, so ffi.init is its value at the
\* drop.)
C1_DropClosesIffOwnedAndInit ==
    last.op = "drop" =>
        /\ (CallsTo("TTF_CloseFont") # {}) <=> (last.self.owned /\ ffi.init = 1)
        /\ Cardinality(CallsTo("TTF_CloseFont")) <= 1
        /\ \A i \in CallsTo("TTF_CloseFont") : Calls[i].arg = last.self.raw

\* an owned Font dropped while the library is initialized, and closed
C1_Witness ==
    /\ last.op = "drop"
    /\ last.self.owned
    /\ ffi.init = 1
    /\ CallsTo("TTF_CloseFont") # {}

\* C2: a Font that was alive when quit() tore the library down is never
\* afterwards passed to TTF_CloseFont, also when init() is called again
\* between the quit() and the drop; and no font resource is closed more
\* than once.
C2_NoCloseAfterShutdown ==
    \A f \in FontIds :
        /\ ffi.font[f].torn => ffi.font[f].closes = 0
        /\ ffi.font[f].closes <= 1

\* C3, one call: init() first asks TTF_WasInit; when that returns 1
\* it returns true without calling TTF_Init; otherwise it calls TTF_Init once
\* and returns true exactly when that call returns 0.  After an init() that
\* returned true was_inited() is true, and an init() that follows it returns
\* true again without a foreign init.
C3_InitShape ==
    last.op = "init" =>
        /\ Len(Calls) >= 1
        /\ Calls[1].fn = "TTF_WasInit"
        /\ IF Calls[1].ret = 1
           THEN Len(Calls) = 1 /\ last.ok
           ELSE /\ Len(Calls) = 2
                /\ Calls[2].fn = "TTF_Init"
                /\ last.ok <=> (Calls[2].ret = 0)
        /\ last.ok => was_inited(ffi).ret

\* C3, the second of two calls: after an init() that returned true, the next
\* init() returns true, makes no foreign init and leaves the counter alone
C3_InitTwice ==
    (last.op = "init" /\ last.ok /\ last'.op = "init")
        => (last'.ok /\ was_inited(ffi').ret /\ ffi'.init = ffi.init
            /\ \A i \in 1..Len(ffi'.log) : ffi'.log[i].fn # "TTF_Init")

\* C3: init() is idempotent: every init() has the shape above, and init()
\* after a successful init() succeeds again without a foreign init
C3_InitIdempotent == []C3_InitShape /\ [][C3_InitTwice]_vars

\* a second init(), answered from TTF_WasInit alone
C3_Witness ==
    /\ last.op = "init"
    /\ last.ok
    /\ Len(Calls) = 1

\* C4: each of the four constructors and of the nine render operations
\* returns Err exactly when its foreign call returns a null handle, and
\* otherwise Ok wrapping that very handle with owned = true; no Font or
\* Surface it hands out is null or not owned.
C4_NullHandleTranslation ==
    /\ last.op \in ConstructorOps \cup RenderOps =>
          /\ Len(Calls) >= 1
          /\ Calls[1].fn = ForeignOf(last.op)
          /\ last.ok <=> (Calls[1].ret # NULL)
          /\ last.ok => last.val = [raw |-> Calls[1].ret, owned |-> TRUE]
    /\ \A h \in fonts : h.raw # NULL /\ h.owned
    /\ \A s \in surfaces : s.raw # NULL /\ s.owned

\* a font loaded from a stream, handed out owned
C4_Witness ==
    /\ last.op = "load_font_index"
    /\ last.ok
    /\ last.val \in fonts
    /\ surfaces # {}

\* C5: in every fallible operation, when the foreign call signals failure
\* the diagnostic is read from the error slot by the very next foreign call,
\* SDL_GetError, and nothing else is called; the Err carries what the slot
\* holds, which is what the failing call wrote.
C5_DiagnosticReadAtOnce ==
    (last.op \in FallibleOps /\ ~last.ok) =>
        /\ Len(Calls) = 2
        /\ Calls[1].fn = ForeignOf(last.op)
        /\ Calls[1].ret = (IF last.op \in SizeOps THEN -1 ELSE NULL)
        /\ Calls[2].fn = "SDL_GetError"
        /\ last.err = Calls[2].diag
        /\ last.err = ffi.err
        /\ last.err # ""

\* a measurement that failed, after a render had succeeded
C5_Witness ==
    /\ last.op = "size_of_str"
    /\ ~last.ok
    /\ last.err = SizeDiag
    /\ surfaces # {}

\* C6: load_font and load_font_index open the font with freesrc = 0, so over
\* every sequence of loads (successful or failed), quit() and drops no byte
\* stream is closed: each is as open as it was, and was closed by no one.
C6_StreamNeverClosed ==
    /\ \A s \in StreamIds : ffi.rw[s] = [st |-> "open", closes |-> 0]
    /\ \A f \in FontIds : ffi.font[f].freesrc = 0

\* a font loaded from a stream was closed, after a quit() tore another down
C6_Witness ==
    /\ \E f \in FontIds : ffi.font[f].src # 0 /\ ffi.font[f].st = "closed"
    /\ \E f \in FontIds : ffi.font[f].src # 0 /\ ffi.font[f].torn

\* C7: each Surface a render hands out owns a buffer of its own: the live
\* Surfaces are owned, their buffers are live and pairwise distinct, no
\* buffer is freed twice; dropping a Font frees no surface, and dropping a
\* Surface frees its own buffer and closes no font.
C7_SurfacesIndependent ==
    /\ \A s \in surfaces : s.owned /\ s.raw # NULL /\ ffi.surf[s.raw].st = "live"
    /\ \A s1, s2 \in surfaces : s1.raw = s2.raw => s1 = s2
    /\ \A r \in SurfIds : ffi.surf[r].frees <= 1
    /\ \A r \in SurfIds :
          ffi.surf[r].st = "live" => \E s \in surfaces : s.raw = r
    /\ \A h \in fonts : h.owned => ffi.font[h.raw].st = "open"
    /\ last.op = "drop" => CallsTo("SDL_FreeSurface") = {}
    /\ last.op = "drop_surface" =>
          /\ CallsTo("TTF_CloseFont") = {}
          /\ \A i \in CallsTo("SDL_FreeSurface") : Calls[i].arg = last.in
    /\ last.op \in RenderOps /\ last.ok =>
          \A s \in surfaces : s.raw = last.val.raw => s = last.val

\* of two rendered surfaces one was destroyed and the other is still live,
\* its font gone
C7_Witness ==
    /\ last.op = "drop_surface"
    /\ surfaces # {}
    /\ fonts = {}
    /\ \E f \in FontIds : ffi.font[f].st = "closed"

\* C8: for every char passed to index_of_char, metrics_of_char or a
\* render_char_* operation, the 16-bit value handed to the foreign glyph call
\* is the caller's code point (a code point above 0xFFFF is not passed as
\* code point mod 2^16).
C8_GlyphArgIsCodepoint ==
    last.op \in GlyphOps =>
        /\ Len(Calls) >= 1
        /\ Calls[1].fn = ForeignOf(last.op)
        /\ Calls[1].arg = last.in

\* what get_style() returns for the Font self in the world w
StyleOf(w, self) == get_style(Enter(w), self).val

\* a set_style(StyleBold) or set_style(StyleNormal) step: get_style()
\* afterwards against get_style() before
C9_SetStyleStep ==
    (last'.op = "set_style" /\ last'.in \in {StyleBold, StyleNormal}) =>
        LET before == StyleOf(ffi, last'.self)
            after == StyleOf(ffi', last'.self)
        IN  /\ last'.in = StyleBold => after = FontStyle_union(StyleBold, before)
            /\ last'.in = StyleNormal => after = FontStyle_empty

\* a get_style() step that follows set_style(s) on the same Font
C9_GetStyleStep ==
    (last.op = "set_style" /\ last'.op = "get_style" /\ last'.self = last.self) =>
        /\ last'.val = StyleOf(ffi, last.self)
        /\ FontStyle_contains(last'.val, last.in)
        /\ last.in = StyleNormal => last'.val = FontStyle_empty

\* set_style(s) has just returned: get_style() reports every bit of s
C9_Reported ==
    last.op = "set_style" => FontStyle_contains(StyleOf(ffi, last.self), last.in)

C10_CounterZeroOrOne ==
    /\ ffi.init \in {0, 1}
    /\ was_inited(ffi).ret <=> (ffi.init # 0)
    /\ last.op = "was_inited" => (last.ok <=> (ffi.init # 0))
    /\ last.op = "quit" => ~was_inited(ffi).ret

\* a quit() that tore down a library holding an open font
C10_Witness ==
    /\ last.op = "quit"
    /\ ffi.init = 0
    /\ \E f \in FontIds : ffi.font[f].torn /\ ffi.font[f].st = "open"

====
